---- MODULE Spec2Model ----
(***************************************************************************)
(* UniThrift backend (server/index.js) and its database schema             *)
(* (prisma migration 20251123124444_add_user_auth).                        *)
(*                                                                         *)
(* Strings the server inspects character by character (trim, case          *)
(* folding, truncation) are sequences of one-character strings.  An        *)
(* optional JavaScript value (undefined / null versus a value) is a        *)
(* sequence of length 0 or 1.                                              *)
(***************************************************************************)
EXTENDS Integers, Sequences, FiniteSets, TLC

VARIABLES
    now,          \* Date.now() of the server process
    ticks,        \* how often the clock has advanced (bounds the run)
    rateBuckets,  \* rateBuckets: key -> <<>> or <<[count, start]>>
    rateLog,      \* history of the limiter per key (see LogLimiter)
    users,        \* table User
    products,     \* table Product
    orders,       \* table Order, each row with its OrderItem rows
    ids,          \* how many ids the database has generated per table
    reqs,         \* requests in flight: slot -> request
    cpn           \* applyCoupon call under test: its arguments and its result

vars == <<now, ticks, rateBuckets, rateLog, users, products, orders, ids, reqs, cpn>>

----------------------------------------------------------------------------
(* Optional values and characters *)

None == <<>>
Some(x) == <<x>>
IsSome(o) == Len(o) = 1
Get(o) == o[1]

LowerChars == <<"a","b","c","d","e","f","g","h","i","j","k","l","m",
                "n","o","p","q","r","s","t","u","v","w","x","y","z">>
UpperChars == <<"A","B","C","D","E","F","G","H","I","J","K","L","M",
                "N","O","P","Q","R","S","T","U","V","W","X","Y","Z">>

\* String.prototype.toUpperCase / toLowerCase, one character
ToUpperChar(c) ==
    IF \E i \in 1..26 : LowerChars[i] = c
    THEN UpperChars[CHOOSE i \in 1..26 : LowerChars[i] = c]
    ELSE c

ToLowerChar(c) ==
    IF \E i \in 1..26 : UpperChars[i] = c
    THEN LowerChars[CHOOSE i \in 1..26 : UpperChars[i] = c]
    ELSE c

ToUpperCase(s) == [i \in 1..Len(s) |-> ToUpperChar(s[i])]
ToLowerCase(s) == [i \in 1..Len(s) |-> ToLowerChar(s[i])]

IsSpace(c) == c \in {" ", "\t", "\n"}

RECURSIVE TrimStart(_)
TrimStart(s) == IF s # <<>> /\ IsSpace(Head(s)) THEN TrimStart(Tail(s)) ELSE s

RECURSIVE TrimEnd(_)
TrimEnd(s) ==
    IF s # <<>> /\ IsSpace(s[Len(s)]) THEN TrimEnd(SubSeq(s, 1, Len(s) - 1)) ELSE s

\* String.prototype.trim
Trim(s) == TrimEnd(TrimStart(s))

\* s.slice(0, n)
Slice0(s, n) == SubSeq(s, 1, IF Len(s) < n THEN Len(s) ELSE n)

\* sanitizeString(value, maxLen): value is a string, "" standing for every falsy value
sanitizeString(value, maxLen) ==
    IF value = <<>> THEN <<>>
    ELSE LET s == Trim(value) IN
         IF Len(s) > maxLen THEN Slice0(s, maxLen) ELSE s

\* a || b on strings
OrElse(a, b) == IF a # <<>> THEN a ELSE b

----------------------------------------------------------------------------
(* Coupon engine *)

UNISTUDENT10 == <<"U","N","I","S","T","U","D","E","N","T","1","0">>
FREESHIP20 == <<"F","R","E","E","S","H","I","P","2","0">>

UniStudentValue == 10
UniStudentMinTotal == 0
FreeShipValue == 20
FreeShipMinTotal == 150

\* COUPONS[code]: <<>> when the table has no such key
COUPONS(code) ==
    IF code = UNISTUDENT10
    THEN Some([type |-> "percent", value |-> UniStudentValue, minTotal |-> UniStudentMinTotal])
    ELSE IF code = FREESHIP20
    THEN Some([type |-> "flat", value |-> FreeShipValue, minTotal |-> FreeShipMinTotal])
    ELSE None

\* Math.round(n / d) for d > 0: the nearest integer, a tie going up
RoundDiv(n, d) == (2 * n + d) \div (2 * d)

Max0(x) == IF x > 0 THEN x ELSE 0

\* discount = Math.max(0, Math.round(discount)) of a coupon on a total
CouponDiscount(info, total) ==
    IF info.type = "percent" THEN Max0(RoundDiv(total * info.value, 100))
    ELSE IF info.type = "flat" THEN Max0(info.value)
    ELSE 0

\* applyCoupon without its minTotal test
applyCouponIgnoresMinTotal(total, rawCode) ==
    LET code == ToUpperCase(Trim(rawCode))
        info == COUPONS(code)
    IN  IF ~IsSome(info) \/ total <= 0
        THEN [finalTotal |-> total, discount |-> 0, code |-> None]
        ELSE LET discount == CouponDiscount(Get(info), total) IN
             [finalTotal |-> Max0(total - discount), discount |-> discount, code |-> Some(code)]

\* applyCoupon(total, rawCode), total an integer
applyCoupon(total, rawCode) ==
    LET code == ToUpperCase(Trim(rawCode))
        info == COUPONS(code)
    IN  IF ~IsSome(info) \/ total <= 0
        THEN [finalTotal |-> total, discount |-> 0, code |-> None]
        ELSE IF total < Get(info).minTotal
        THEN [finalTotal |-> total, discount |-> 0, code |-> None]
        ELSE LET discount == CouponDiscount(Get(info), total) IN
             [finalTotal |-> Max0(total - discount), discount |-> discount, code |-> Some(code)]

----------------------------------------------------------------------------
(* Rate limiter *)

WindowMs == 60000
CheckoutMaxRequests == 10
AdminMaxRequests == 60

IPs == {"ip1", "ip2"}
Labels == {"checkout", "admin"}
\* the key `${label}:${ip}`
RateKey(label, ip) == <<label, ip>>
Keys == {RateKey(l, i) : l \in Labels, i \in IPs}

\* rateLimit admitting one request more than maxRequests
rateLimitOffByOne(windowMs, maxRequests, bucket, t) ==
    IF ~IsSome(bucket)
    THEN [bucket |-> Some([count |-> 1, start |-> t]), next |-> TRUE]
    ELSE IF t - Get(bucket).start > windowMs
    THEN [bucket |-> Some([count |-> 1, start |-> t]), next |-> TRUE]
    ELSE [bucket |-> Some([count |-> Get(bucket).count + 1, start |-> Get(bucket).start]),
          next |-> ~(Get(bucket).count + 1 > maxRequests + 1)]

\* rateLimit restarting the window on every request, a rejected one too
rateLimitSlidesWindow(windowMs, maxRequests, bucket, t) ==
    IF ~IsSome(bucket)
    THEN [bucket |-> Some([count |-> 1, start |-> t]), next |-> TRUE]
    ELSE IF t - Get(bucket).start > windowMs
    THEN [bucket |-> Some([count |-> 1, start |-> t]), next |-> TRUE]
    ELSE [bucket |-> Some([count |-> Get(bucket).count + 1, start |-> t]),
          next |-> ~(Get(bucket).count + 1 > maxRequests)]

\* the middleware rateLimit(windowMs, maxRequests, label) on the bucket of the
\* request's key at time t: the bucket it leaves and whether it calls next()
rateLimit(windowMs, maxRequests, bucket, t) ==
    IF ~IsSome(bucket)
    THEN [bucket |-> Some([count |-> 1, start |-> t]), next |-> TRUE]
    ELSE IF t - Get(bucket).start > windowMs
    THEN [bucket |-> Some([count |-> 1, start |-> t]), next |-> TRUE]
    ELSE [bucket |-> Some([count |-> Get(bucket).count + 1, start |-> Get(bucket).start]),
          next |-> ~(Get(bucket).count + 1 > maxRequests)]

checkoutLimiter(bucket, t) == rateLimit(WindowMs, CheckoutMaxRequests, bucket, t)
adminLimiter(bucket, t) == rateLimit(WindowMs, AdminMaxRequests, bucket, t)

\* history of the limiter, per key: how many requests it has admitted since
\* bucket.start, whether it has rejected one since bucket.start, and whether the
\* window now open was opened by a reset that followed a window with a rejection;
\* reached counts, per key, the requests that have come to the handler of a
\* route of that label at the present instant (see LogReached)
LogLimiter(key, before, res) ==
    LET same == IsSome(before) /\ Get(res.bucket).start = Get(before).start
                /\ Get(res.bucket).count > 1
    IN  [admitted |-> [rateLog.admitted EXCEPT ![key] =
                          IF ~res.next THEN @ ELSE IF same THEN @ + 1 ELSE 1],
         rejected |-> [rateLog.rejected EXCEPT ![key] =
                          IF ~res.next THEN TRUE ELSE IF same THEN @ ELSE FALSE],
         reopened |-> [rateLog.reopened EXCEPT ![key] =
                          IF ~res.next \/ same THEN @ ELSE rateLog.rejected[key]],
         reached |-> rateLog.reached]

\* one more request of the key has come to its handler at the present instant
LogReached(key) == [rateLog EXCEPT !.reached[key] = @ + 1]

----------------------------------------------------------------------------
(* Requests and responses *)

\* the requests the server is handling or has just answered
Slots == DOMAIN reqs

\* res.status(status).json({error, ...data})
Json(status, error, data) ==
    [status |-> status, json |-> TRUE, error |-> error, data |-> data]
\* res.json(data)
Ok(data) == Json(200, "", Some(data))

\* a request: kind and pc say where its handler stands, stage is the last
\* middleware it reached, failed whether a persistence call of it has failed,
\* body what the handler has read of the request body
Idle ==
    [kind |-> "none", pc |-> "idle", stage |-> "none", failed |-> FALSE,
     tok |-> None, body |-> None, loc |-> None, resp |-> None]

\* a new request of the given kind
NewReq(kind) == [Idle EXCEPT !.kind = kind]

Free(r) == reqs[r].pc = "idle"

Answer(q, resp) == [q EXCEPT !.pc = "done", !.resp = Some(resp), !.loc = None]

\* the response has gone out, or the client has given up waiting for one, and
\* the connection of the request is closed
Forget(r) ==
    /\ reqs[r].pc \in {"done", "rejected"}
    /\ reqs' = [reqs EXCEPT ![r] = Idle]
    /\ UNCHANGED <<now, ticks, rateBuckets, rateLog, users, products, orders, ids, cpn>>

----------------------------------------------------------------------------
(* Auth *)

\* bcrypt.hash(password, 10) and bcrypt.compare(password, hash)
bcryptHash(password) == [alg |-> "bcrypt", cost |-> 10, of |-> password]
bcryptCompare(password, hash) == hash.of = password

\* signToken(user): the token carries the payload and a valid signature
signToken(user) ==
    [valid |-> TRUE, id |-> user.id, email |-> user.email, name |-> user.name]

PublicUser(user) == [id |-> user.id, email |-> user.email, name |-> user.name]

\* a token that jwt.verify rejects (forged, malformed or expired)
BadToken == [valid |-> FALSE, id |-> 0, email |-> <<>>, name |-> <<>>]

\* the Authorization headers a client can send: none, a bad bearer token, or a
\* token the server has issued to a registered user
AuthHeaders == {None, Some(BadToken)} \cup {Some(signToken(u)) : u \in users}

\* prisma.user.findUnique({where: {id}}) / ({where: {email}})
UserById(id) == {u \in users : u.id = id}
UserByEmail(email) == {u \in users : u.email = email}

\* requireAuth up to its await: the response it sends, or <<>> when it goes on
\* to look the user up
requireAuthSync(hdr) ==
    IF ~IsSome(hdr) THEN Some(Json(401, "Missing auth token", None))
    ELSE IF ~Get(hdr).valid THEN Some(Json(401, "Invalid or expired token", None))
    ELSE None

\* requireAuth after prisma.user.findUnique: the response it sends, or <<>>
\* when it calls next()
requireAuthFound(q) ==
    IF UserById(Get(q.tok)) = {} THEN Some(Json(401, "User not found", None))
    ELSE None

\* a request of the given kind arrives at a route gated by requireAuth alone
ArriveAuth(r, kind, hdr) ==
    /\ Free(r)
    /\ hdr \in AuthHeaders
    /\ LET sync == requireAuthSync(hdr)
           q == [NewReq(kind) EXCEPT !.stage = "auth"] IN
       reqs' = [reqs EXCEPT ![r] =
                   IF IsSome(sync) THEN Answer(q, Get(sync))
                   ELSE [q EXCEPT !.pc = "auth", !.tok = Some(Get(hdr).id)]]

----------------------------------------------------------------------------
(* Signup and login *)

MaxUsers == 2

\* User_email_key without enforcement
EmailUniqueUnenforced(email) == TRUE

\* CREATE UNIQUE INDEX "User_email_key": no User row holds the email yet
EmailUnique(email) == UserByEmail(email) = {}

\* POST /api/auth/signup arrives: the handler up to its await of findUnique
SignupArrive(r, email, password, name) ==
    /\ Free(r)
    /\ LET cleanEmail == ToLowerCase(sanitizeString(email, 120))
           cleanName == sanitizeString(name, 80)
           q == [NewReq("signup") EXCEPT !.stage = "handler"]
       IN  reqs' = [reqs EXCEPT ![r] =
              IF cleanEmail = <<>> \/ password = "" \/ cleanName = <<>>
              THEN Answer(q, Json(400, "name, email, and password are required", None))
              ELSE [q EXCEPT !.pc = "lookup",
                             !.body = Some([email |-> cleanEmail]),
                             !.loc = Some([cleanEmail |-> cleanEmail, cleanName |-> cleanName,
                                           password |-> password])]]
    /\ UNCHANGED <<now, ticks, rateBuckets, rateLog, users, products, orders, ids, cpn>>

\* prisma.user.findUnique({where: {email}}) returns; 409 or on to bcrypt.hash
SignupLookup(r) ==
    /\ reqs[r].kind = "signup" /\ reqs[r].pc = "lookup"
    /\ reqs' = [reqs EXCEPT ![r] =
          IF UserByEmail(Get(@.loc).cleanEmail) # {}
          THEN Answer(@, Json(409, "Email already registered", None))
          ELSE [@ EXCEPT !.pc = "hash"]]
    /\ UNCHANGED <<now, ticks, rateBuckets, rateLog, users, products, orders, ids, cpn>>

\* bcrypt.hash resolves; the handler awaits prisma.user.create
SignupHash(r) ==
    /\ reqs[r].kind = "signup" /\ reqs[r].pc = "hash"
    /\ reqs' = [reqs EXCEPT ![r].pc = "create",
                            ![r].loc = Some([cleanEmail |-> Get(@).cleanEmail,
                                             cleanName |-> Get(@).cleanName,
                                             passwordHash |-> bcryptHash(Get(@).password)])]
    /\ UNCHANGED <<now, ticks, rateBuckets, rateLog, users, products, orders, ids, cpn>>

\* prisma.user.create runs: the row is inserted and the token returned, or the
\* unique index rejects it and the catch answers 500
SignupCreate(r) ==
    /\ reqs[r].kind = "signup" /\ reqs[r].pc = "create"
    /\ Cardinality(users) < MaxUsers
    /\ LET l == Get(reqs[r].loc)
           user == [id |-> ids.user + 1, email |-> l.cleanEmail, name |-> l.cleanName,
                    passwordHash |-> l.passwordHash]
       IN  IF EmailUnique(l.cleanEmail)
           THEN /\ users' = users \cup {user}
                /\ ids' = [ids EXCEPT !.user = @ + 1]
                /\ reqs' = [reqs EXCEPT ![r] =
                      Answer(@, Ok([token |-> signToken(user), user |-> PublicUser(user)]))]
           ELSE /\ reqs' = [reqs EXCEPT ![r] =
                      Answer([@ EXCEPT !.failed = TRUE], Json(500, "Signup failed", None))]
                /\ UNCHANGED <<users, ids>>
    /\ UNCHANGED <<now, ticks, rateBuckets, rateLog, products, orders, cpn>>

\* login telling an unknown email apart
LoginUnknownEmailTold == Json(404, "User not found", None)

\* the answer of login to an email no user has
LoginUnknownEmail == Json(401, "Invalid credentials", None)

\* the answer of login to a password that does not match the hash
LoginWrongPassword == Json(401, "Invalid credentials", None)

\* POST /api/auth/login arrives: the handler up to its await of findUnique
LoginArrive(r, email, password) ==
    /\ Free(r)
    /\ LET cleanEmail == ToLowerCase(sanitizeString(email, 120))
           q == [NewReq("login") EXCEPT !.stage = "handler"]
       IN  reqs' = [reqs EXCEPT ![r] =
              IF cleanEmail = <<>> \/ password = ""
              THEN Answer(q, Json(400, "email and password are required", None))
              ELSE [q EXCEPT !.pc = "lookup",
                             !.body = Some([email |-> cleanEmail, found |-> FALSE]),
                             !.loc = Some([cleanEmail |-> cleanEmail, password |-> password])]]
    /\ UNCHANGED <<now, ticks, rateBuckets, rateLog, users, products, orders, ids, cpn>>

\* prisma.user.findUnique({where: {email}}) returns; 401 or on to bcrypt.compare
LoginLookup(r) ==
    /\ reqs[r].kind = "login" /\ reqs[r].pc = "lookup"
    /\ LET l == Get(reqs[r].loc)
           found == UserByEmail(l.cleanEmail)
       IN  reqs' = [reqs EXCEPT ![r] =
              IF found = {} THEN Answer(@, LoginUnknownEmail)
              ELSE [@ EXCEPT !.pc = "compare",
                             !.body = Some([email |-> l.cleanEmail, found |-> TRUE]),
                             !.loc = Some([user |-> CHOOSE u \in found : TRUE,
                                           password |-> l.password])]]
    /\ UNCHANGED <<now, ticks, rateBuckets, rateLog, users, products, orders, ids, cpn>>

\* bcrypt.compare resolves; 401 or the token
LoginCompare(r) ==
    /\ reqs[r].kind = "login" /\ reqs[r].pc = "compare"
    /\ LET l == Get(reqs[r].loc) IN
       reqs' = [reqs EXCEPT ![r] =
          IF ~bcryptCompare(l.password, l.user.passwordHash)
          THEN Answer(@, LoginWrongPassword)
          ELSE Answer(@, Ok([token |-> signToken(l.user), user |-> PublicUser(l.user)]))]
    /\ UNCHANGED <<now, ticks, rateBuckets, rateLog, users, products, orders, ids, cpn>>

----------------------------------------------------------------------------
(* Database: Product, Order, OrderItem *)

MaxProducts == 2
MaxOrders == 2
MaxCount == 11
MaxTicks == 1

\* ids the database generates for Product rows, in the order of creation
ProductIdNames == <<"p1", "p2", "p3", "p4", "p5", "p6">>

ProductById(id) == {p \in products : p.id = id}


\* OrderItem_productId_fkey: every OrderItem.productId references a Product
ItemsReferenceProducts(items) ==
    \A k \in 1..Len(items) : ProductById(items[k].productId) # {}

\* OrderItem_productId_fkey, ON DELETE RESTRICT: no OrderItem references the product
ProductUnreferenced(id) ==
    \A n \in 1..Len(orders) : \A k \in 1..Len(orders[n].items) :
        orders[n].items[k].productId # id

----------------------------------------------------------------------------
(* Checkout *)

\* a field of req.body: an array body has none of the named fields
BodyField(body, f) == IF body.isArray THEN <<>> ELSE body[f]

\* let items = [] ... the three accepted payload shapes
BodyItems(body) ==
    IF body.isArray THEN body.array
    ELSE IF IsSome(body.items) THEN Get(body.items)
    ELSE IF IsSome(body.cart) THEN Get(body.cart)
    ELSE <<>>

\* one cart entry normalized; qty and price are numbers when Number() of them is finite
NormItem(i) ==
    [productId |-> IF i.productId # "" THEN i.productId
                   ELSE IF i.id # "" THEN i.id ELSE "CLIENT-ID",
     name |-> OrElse(i.name, <<"I","t","e","m">>),
     qty |-> IF IsSome(i.qty) THEN Get(i.qty) ELSE 1,
     priceSnap |-> IF IsSome(i.price) THEN Get(i.price) ELSE 0]

\* .filter((i) => i).map(...): a falsy entry is <<>>
RECURSIVE Norm(_)
Norm(items) ==
    IF items = <<>> THEN <<>>
    ELSE IF ~IsSome(Head(items)) THEN Norm(Tail(items))
    ELSE <<NormItem(Get(Head(items)))>> \o Norm(Tail(items))

\* priceMap[id]: the stored price of a found product, <<>> when undefined
PriceMap(found, id) ==
    IF \E p \in found : p.id = id
    THEN Some((CHOOSE p \in found : p.id = id).price)
    ELSE None

\* the unit price and the quantity baseTotal charges for one item
UnitPrice(found, i) ==
    IF IsSome(PriceMap(found, i.productId)) THEN Get(PriceMap(found, i.productId))
    ELSE i.priceSnap
ChargedQty(i) == IF i.qty > 0 THEN i.qty ELSE 1

\* norm.reduce((sum, i) => sum + unit * qty, 0)
RECURSIVE BaseTotal(_, _)
BaseTotal(found, norm) ==
    IF norm = <<>> THEN 0
    ELSE UnitPrice(found, Head(norm)) * ChargedQty(Head(norm)) + BaseTotal(found, Tail(norm))


\* items: {create: norm.map(...)}
OrderItems(found, norm) ==
    [k \in 1..Len(norm) |->
        [productId |-> norm[k].productId,
         qty |-> norm[k].qty,
         price |-> IF IsSome(PriceMap(found, norm[k].productId))
                   THEN Get(PriceMap(found, norm[k].productId))
                   ELSE norm[k].priceSnap]]

ADMU == <<"A","D","M","U">>
Gate25 == <<"G","a","t","e"," ","2",".","5">>

\* the handler answering an empty normalized cart with 422 before it looks at the phone
checkoutPrefixCartFirst(body) ==
    LET buyerPhone == sanitizeString(BodyField(body, "phone"), 32)
        norm == Norm(BodyItems(body))
    IN  IF norm = <<>>
        THEN [resp |-> Some(Json(422, "No items received", None)), loc |-> None]
        ELSE IF buyerPhone = <<>>
        THEN [resp |-> Some(Json(400, "Phone number is required", None)), loc |-> None]
        ELSE [resp |-> None,
              loc |-> Some([campus |-> sanitizeString(OrElse(BodyField(body, "campus"), ADMU), 40),
                            pickup |-> sanitizeString(OrElse(BodyField(body, "pickup"), Gate25), 80),
                            couponCodeRaw |-> sanitizeString(BodyField(body, "couponCode"), 32),
                            buyerPhone |-> buyerPhone, norm |-> norm])]

\* the checkout handler up to its first await: the response it sends, or the
\* locals it carries on with
checkoutPrefix(body) ==
    LET campus == sanitizeString(OrElse(BodyField(body, "campus"), ADMU), 40)
        pickup == sanitizeString(OrElse(BodyField(body, "pickup"), Gate25), 80)
        couponCodeRaw == sanitizeString(BodyField(body, "couponCode"), 32)
        buyerPhone == sanitizeString(BodyField(body, "phone"), 32)
        norm == Norm(BodyItems(body))
    IN  IF buyerPhone = <<>>
        THEN [resp |-> Some(Json(400, "Phone number is required", None)), loc |-> None]
        ELSE IF norm = <<>>
        THEN [resp |-> Some(Json(422, "No items received", None)), loc |-> None]
        ELSE [resp |-> None,
              loc |-> Some([campus |-> campus, pickup |-> pickup,
                            couponCodeRaw |-> couponCodeRaw,
                            buyerPhone |-> buyerPhone, norm |-> norm])]

\* POST /api/cart/checkout arrives: checkoutLimiter, then requireAuth up to its await
CheckoutArrive(r, ip, hdr) ==
    /\ Free(r)
    /\ hdr \in AuthHeaders
    /\ LET key == RateKey("checkout", ip)
           before == rateBuckets[key]
           res == checkoutLimiter(before, now)
           sync == requireAuthSync(hdr)
           q == NewReq("checkout")
       IN  /\ Get(res.bucket).count <= MaxCount
           /\ rateBuckets' = [rateBuckets EXCEPT ![key] = res.bucket]
           /\ rateLog' = LogLimiter(key, before, res)
           /\ reqs' = [reqs EXCEPT ![r] =
                 IF ~res.next
                 THEN Answer([q EXCEPT !.stage = "limiter"],
                             Json(429, "Too many requests", None))
                 ELSE IF IsSome(sync)
                 THEN Answer([q EXCEPT !.stage = "auth"], Get(sync))
                 ELSE [q EXCEPT !.stage = "auth", !.pc = "auth", !.tok = Some(Get(hdr).id)]]
    /\ UNCHANGED <<now, ticks, users, products, orders, ids, cpn>>

\* requireAuth resumes after prisma.user.findUnique and calls next(); the handler
\* runs up to its await of prisma.product.findMany
CheckoutAuth(r, body) ==
    /\ reqs[r].kind = "checkout" /\ reqs[r].pc = "auth"
    /\ LET q == reqs[r]
           auth == requireAuthFound(q)
           pre == checkoutPrefix(body)
           h == [q EXCEPT !.stage = "handler", !.body = Some(body)]
       IN  reqs' = [reqs EXCEPT ![r] =
                 IF IsSome(auth) THEN Answer(q, Get(auth))
                 ELSE IF IsSome(pre.resp) THEN Answer(h, Get(pre.resp))
                 ELSE [h EXCEPT !.pc = "prices", !.loc = pre.loc]]
    /\ UNCHANGED <<now, ticks, rateBuckets, rateLog, users, products, orders, ids, cpn>>

\* prisma.product.findMany returns; the handler computes baseTotal, applies the
\* coupon and awaits prisma.order.create
CheckoutPrices(r) ==
    /\ reqs[r].kind = "checkout" /\ reqs[r].pc = "prices"
    /\ LET l == Get(reqs[r].loc)
           found == {p \in products : \E k \in 1..Len(l.norm) : p.id = l.norm[k].productId}
           baseTotal == BaseTotal(found, l.norm)
           c == applyCoupon(baseTotal, l.couponCodeRaw)
           data == [campus |-> l.campus, pickup |-> l.pickup, total |-> c.finalTotal,
                    couponCode |-> c.code, discount |-> c.discount,
                    buyerPhone |-> l.buyerPhone, buyerId |-> Get(reqs[r].tok),
                    items |-> OrderItems(found, l.norm)]
       IN  reqs' = [reqs EXCEPT ![r].pc = "create",
                                ![r].loc = Some([data |-> data, norm |-> l.norm,
                                                 couponCodeRaw |-> l.couponCodeRaw])]
    /\ UNCHANGED <<now, ticks, rateBuckets, rateLog, users, products, orders, ids, cpn>>

\* prisma.order.create runs: the Order and its OrderItems are inserted in one
\* transaction, or a foreign key fails and the catch answers 500
CheckoutCreate(r) ==
    /\ reqs[r].kind = "checkout" /\ reqs[r].pc = "create"
    /\ Len(orders) < MaxOrders
    /\ LET l == Get(reqs[r].loc)
           d == l.data
           order == [id |-> ids.order + 1, campus |-> d.campus, pickup |-> d.pickup,
                     total |-> d.total, couponCode |-> d.couponCode,
                     discount |-> d.discount, buyerPhone |-> d.buyerPhone,
                     buyerId |-> d.buyerId, createdAt |-> now, items |-> d.items,
                     couponCodeRaw |-> l.couponCodeRaw]
       IN  IF ItemsReferenceProducts(d.items) /\ UserById(d.buyerId) # {}
           THEN /\ orders' = Append(orders, order)
                /\ ids' = [ids EXCEPT !.order = @ + 1]
                /\ reqs' = [reqs EXCEPT ![r] =
                      Answer(@,
                             Ok([orderId |-> order.id, total |-> order.total,
                                 discount |-> order.discount, couponCode |-> order.couponCode,
                                 etaMins |-> 15, fee |-> 0]))]
           ELSE /\ reqs' = [reqs EXCEPT ![r] =
                      Answer([@ EXCEPT !.failed = TRUE],
                             Json(500, "Checkout failed", None))]
                /\ UNCHANGED <<orders, ids>>
    /\ UNCHANGED <<now, ticks, rateBuckets, rateLog, users, products, cpn>>

\* Date.now() advances
Tick(d) ==
    /\ ticks < MaxTicks
    /\ now' = now + d
    /\ ticks' = ticks + 1
    /\ rateLog' = [rateLog EXCEPT !.reached = [k \in Keys |-> 0]]
    /\ UNCHANGED <<rateBuckets, users, products, orders, ids, reqs, cpn>>

----------------------------------------------------------------------------
(* Seller: products *)

\* POST /api/my/products arrives: requireAuth up to its await
AddProductArrive(r, hdr) ==
    /\ ArriveAuth(r, "addProduct", hdr)
    /\ UNCHANGED <<now, ticks, rateBuckets, rateLog, users, products, orders, ids, cpn>>

\* requireAuth resumes and calls next(); the handler validates name and price
\* and awaits prisma.product.create
AddProductAuth(r, name, price) ==
    /\ reqs[r].kind = "addProduct" /\ reqs[r].pc = "auth"
    /\ LET q == reqs[r]
           auth == requireAuthFound(q)
           cleanName == sanitizeString(name, 80)
           \* Number(price) is NaN for a missing price; !numericPrice holds of NaN and 0
           priceOk == IsSome(price) /\ Get(price) # 0
           h == [q EXCEPT !.stage = "handler"]
       IN  reqs' = [reqs EXCEPT ![r] =
              IF IsSome(auth) THEN Answer(q, Get(auth))
              ELSE IF cleanName = <<>> \/ ~priceOk
              THEN Answer(h, Json(400, "name and price are required", None))
              ELSE [h EXCEPT !.pc = "create",
                             !.loc = Some([name |-> cleanName, price |-> Get(price),
                                           sellerId |-> Get(q.tok)])]]
    /\ UNCHANGED <<now, ticks, rateBuckets, rateLog, users, products, orders, ids, cpn>>

\* prisma.product.create runs and the handler answers {product}
AddProductCreate(r) ==
    /\ reqs[r].kind = "addProduct" /\ reqs[r].pc = "create"
    /\ Cardinality(products) < MaxProducts /\ ids.product < MaxProducts
    /\ LET l == Get(reqs[r].loc)
           product == [id |-> ProductIdNames[ids.product + 1], name |-> l.name,
                       price |-> l.price, sellerId |-> l.sellerId]
       IN  /\ products' = products \cup {product}
           /\ ids' = [ids EXCEPT !.product = @ + 1]
           /\ reqs' = [reqs EXCEPT ![r] = Answer(@, Ok([product |-> product]))]
    /\ UNCHANGED <<now, ticks, rateBuckets, rateLog, users, orders, cpn>>

\* DELETE /api/my/products/:id arrives: requireAuth up to its await
DeleteProductArrive(r, hdr) ==
    /\ ArriveAuth(r, "deleteProduct", hdr)
    /\ UNCHANGED <<now, ticks, rateBuckets, rateLog, users, products, orders, ids, cpn>>

\* requireAuth resumes and calls next(); the handler awaits prisma.product.findUnique
DeleteProductAuth(r, id) ==
    /\ reqs[r].kind = "deleteProduct" /\ reqs[r].pc = "auth"
    /\ LET q == reqs[r]
           auth == requireAuthFound(q)
       IN  reqs' = [reqs EXCEPT ![r] =
              IF IsSome(auth) THEN Answer(q, Get(auth))
              ELSE [q EXCEPT !.stage = "handler", !.pc = "find", !.loc = Some([id |-> id])]]
    /\ UNCHANGED <<now, ticks, rateBuckets, rateLog, users, products, orders, ids, cpn>>

\* findUnique returns; 403 unless the product is the caller's, else on to delete
DeleteProductFind(r) ==
    /\ reqs[r].kind = "deleteProduct" /\ reqs[r].pc = "find"
    /\ LET id == Get(reqs[r].loc).id
           product == ProductById(id)
       IN  reqs' = [reqs EXCEPT ![r] =
              IF product = {} \/ (\E p \in product : p.sellerId # Get(@.tok))
              THEN Answer(@, Json(403, "Not allowed", None))
              ELSE [@ EXCEPT !.pc = "delete"]]
    /\ UNCHANGED <<now, ticks, rateBuckets, rateLog, users, products, orders, ids, cpn>>

\* prisma.product.delete runs: the row goes, or the delete throws (the row is
\* gone already, or an OrderItem references it) and the catch answers 500
DeleteProductDelete(r) ==
    /\ reqs[r].kind = "deleteProduct" /\ reqs[r].pc = "delete"
    /\ LET id == Get(reqs[r].loc).id IN
       IF ProductById(id) # {} /\ ProductUnreferenced(id)
       THEN /\ products' = products \ ProductById(id)
            /\ reqs' = [reqs EXCEPT ![r] = Answer(@, Ok([ok |-> TRUE]))]
       ELSE /\ reqs' = [reqs EXCEPT ![r] =
                  Answer([@ EXCEPT !.failed = TRUE],
                         Json(500, "Failed to delete product", None))]
            /\ UNCHANGED products
    /\ UNCHANGED <<now, ticks, rateBuckets, rateLog, users, orders, ids, cpn>>

----------------------------------------------------------------------------
(* Listings and analytics *)

Reverse(q) == [i \in 1..Len(q) |-> q[Len(q) + 1 - i]]

\* the sum of a sequence of integers
RECURSIVE SumSeq(_)
SumSeq(q) == IF q = <<>> THEN 0 ELSE Head(q) + SumSeq(Tail(q))

\* o.total || 0 and o.discount || 0 of each order
Totals(q) == [i \in 1..Len(q) |-> q[i].total]
Discounts(q) == [i \in 1..Len(q) |-> q[i].discount]

\* a set of integers as an ascending sequence
RECURSIVE Ascending(_)
Ascending(S) ==
    IF S = {} THEN <<>>
    ELSE LET m == CHOOSE x \in S : \A y \in S : x <= y IN <<m>> \o Ascending(S \ {m})

\* a request arrives at a route with no middleware and awaits its first query
ArriveOpen(r, kind, loc) ==
    /\ Free(r)
    /\ reqs' = [reqs EXCEPT ![r] =
          [NewReq(kind) EXCEPT !.stage = "handler", !.pc = "query", !.loc = Some(loc)]]
    /\ UNCHANGED <<now, ticks, rateBuckets, users, products, orders, ids, cpn>>

\* GET /api/my/products, /api/my/orders or /api/my/sales arrives: requireAuth up to its await
MyListArrive(r, kind, hdr) ==
    /\ kind \in {"myProducts", "myOrders", "mySales"}
    /\ ArriveAuth(r, kind, hdr)
    /\ UNCHANGED <<now, ticks, rateBuckets, rateLog, users, products, orders, ids, cpn>>

\* requireAuth resumes and calls next(); the handler awaits its findMany
MyListAuth(r) ==
    /\ reqs[r].kind \in {"myProducts", "myOrders", "mySales"} /\ reqs[r].pc = "auth"
    /\ LET q == reqs[r]
           auth == requireAuthFound(q)
       IN  reqs' = [reqs EXCEPT ![r] =
              IF IsSome(auth) THEN Answer(q, Get(auth))
              ELSE [q EXCEPT !.stage = "handler", !.pc = "query"]]
    /\ UNCHANGED <<now, ticks, rateBuckets, rateLog, users, products, orders, ids, cpn>>

\* GET /api/my/products: findMany returns the caller's products
MyProductsQuery(r) ==
    /\ reqs[r].kind = "myProducts" /\ reqs[r].pc = "query"
    /\ reqs' = [reqs EXCEPT ![r] =
          Answer(@, Ok([products |-> {p \in products : p.sellerId = Get(@.tok)}]))]
    /\ UNCHANGED <<now, ticks, rateBuckets, rateLog, users, products, orders, ids, cpn>>

\* GET /api/my/orders: findMany returns the caller's orders, newest first
MyOrdersQuery(r) ==
    /\ reqs[r].kind = "myOrders" /\ reqs[r].pc = "query"
    /\ LET mine(o) == o.buyerId = Get(reqs[r].tok) IN
       reqs' = [reqs EXCEPT ![r] =
          Answer(@, Ok([orders |-> Reverse(SelectSeq(orders, mine))]))]
    /\ UNCHANGED <<now, ticks, rateBuckets, rateLog, users, products, orders, ids, cpn>>

\* GET /api/my/sales: the first findMany returns the ids of the caller's products
MySalesProducts(r) ==
    /\ reqs[r].kind = "mySales" /\ reqs[r].pc = "query"
    /\ LET idsOfMine == {p.id : p \in {p \in products : p.sellerId = Get(reqs[r].tok)}} IN
       reqs' = [reqs EXCEPT ![r] =
          IF idsOfMine = {} THEN Answer(@, Ok([orders |-> <<>>]))
          ELSE [@ EXCEPT !.pc = "query2", !.loc = Some([ids |-> idsOfMine])]]
    /\ UNCHANGED <<now, ticks, rateBuckets, rateLog, users, products, orders, ids, cpn>>

\* GET /api/my/sales: the second findMany returns the orders holding such a product
MySalesOrders(r) ==
    /\ reqs[r].kind = "mySales" /\ reqs[r].pc = "query2"
    /\ LET sold(o) == \E k \in 1..Len(o.items) : o.items[k].productId \in Get(reqs[r].loc).ids IN
       reqs' = [reqs EXCEPT ![r] =
          Answer(@, Ok([orders |-> Reverse(SelectSeq(orders, sold))]))]
    /\ UNCHANGED <<now, ticks, rateBuckets, rateLog, users, products, orders, ids, cpn>>

\* GET /api/products arrives and awaits findMany
ProductsArrive(r) == ArriveOpen(r, "products", [none |-> TRUE]) /\ UNCHANGED rateLog

\* GET /api/products: findMany returns every product
ProductsQuery(r) ==
    /\ reqs[r].kind = "products" /\ reqs[r].pc = "query"
    /\ reqs' = [reqs EXCEPT ![r] = Answer(@, Ok(products))]
    /\ UNCHANGED <<now, ticks, rateBuckets, rateLog, users, products, orders, ids, cpn>>

DayMs == 86400000

\* createdAt.toISOString().slice(0, 10): the UTC day of an instant, as a day number
DateKey(t) == t \div DayMs

\* req.query.range || "7d"
RangeOf(raw) == IF raw = "" THEN "7d" ELSE raw

\* the lower bound of the range of GET /api/admin/summary: the instant
\* daysBack days before the given instant (new Date(0) for every other range)
RangeFrom(range, t) ==
    IF range = "7d" THEN [instant |-> t, daysBack |-> 7]
    ELSE IF range = "30d" THEN [instant |-> t, daysBack |-> 30]
    ELSE [instant |-> 0, daysBack |-> 0]

\* createdAt >= from
Gte(createdAt, from) ==
    LET e == from.instant - createdAt IN
    \/ e <= 0
    \/ e \div DayMs < from.daysBack
    \/ e \div DayMs = from.daysBack /\ e % DayMs = 0

\* the property names every object literal {} inherits from Object.prototype:
\* map[k] is truthy for each of them although the map has no entry of its own
ObjectPrototypeKeys ==
    {<<"c","o","n","s","t","r","u","c","t","o","r">>,
     <<"_","_","p","r","o","t","o","_","_">>,
     <<"h","a","s","O","w","n","P","r","o","p","e","r","t","y">>,
     <<"i","s","P","r","o","t","o","t","y","p","e","O","f">>,
     <<"p","r","o","p","e","r","t","y","I","s","E","n","u","m","e","r","a","b","l","e">>,
     <<"t","o","L","o","c","a","l","e","S","t","r","i","n","g">>,
     <<"t","o","S","t","r","i","n","g">>,
     <<"v","a","l","u","e","O","f">>,
     <<"_","_","d","e","f","i","n","e","G","e","t","t","e","r","_","_">>,
     <<"_","_","d","e","f","i","n","e","S","e","t","t","e","r","_","_">>,
     <<"_","_","l","o","o","k","u","p","G","e","t","t","e","r","_","_">>,
     <<"_","_","l","o","o","k","u","p","S","e","t","t","e","r","_","_">>}

\* the keys k for which the statements
\*   if (!map[k]) map[k] = {...};  map[k].n += ...
\* of a map built from {} leave an entry of its own in Object.values(map)
OwnKeys(keys) == keys \ ObjectPrototypeKeys

\* the body of GET /api/admin/summary over the orders found
Summary(found) ==
    LET campusOf(o) == IF o.campus = <<>> THEN <<"U","n","k","n","o","w","n">> ELSE o.campus
        campuses == OwnKeys({campusOf(found[n]) : n \in 1..Len(found)})
        codes == {Some(k) : k \in OwnKeys({Get(found[n].couponCode) :
                                             n \in {m \in 1..Len(found) :
                                                       /\ IsSome(found[m].couponCode)
                                                       /\ Get(found[m].couponCode) # <<>>}})}
        days == {DateKey(found[n].createdAt) : n \in 1..Len(found)}
        daySeq == Ascending(days)
    IN  [totals |-> [sales |-> SumSeq(Totals(found)), orders |-> Len(found),
                     avgOrder |-> IF Len(found) > 0
                                  THEN RoundDiv(SumSeq(Totals(found)), Len(found)) ELSE 0,
                     discount |-> SumSeq(Discounts(found))],
         byCampus |-> {LET at(o) == campusOf(o) = c IN
                       [campus |-> c, sales |-> SumSeq(Totals(SelectSeq(found, at))),
                        orders |-> Len(SelectSeq(found, at))] : c \in campuses},
         byCoupon |-> {LET with(o) == o.couponCode = c IN
                       [code |-> Get(c), uses |-> Len(SelectSeq(found, with)),
                        totalDiscount |-> SumSeq(Discounts(SelectSeq(found, with)))] : c \in codes},
         daily |-> [i \in 1..Len(daySeq) |->
                       LET on(o) == DateKey(o.createdAt) = daySeq[i] IN
                       [date |-> daySeq[i], sales |-> SumSeq(Totals(SelectSeq(found, on))),
                        orders |-> Len(SelectSeq(found, on))]]]

\* GET /api/admin/summary?range= arrives from ip: the route has no middleware,
\* the handler reads the clock and awaits findMany
AdminSummaryArrive(r, ip, raw) ==
    /\ ArriveOpen(r, "adminSummary",
                  [range |-> RangeOf(raw), from |-> RangeFrom(RangeOf(raw), now), to |-> now])
    /\ rateLog' = LogReached(RateKey("admin", ip))

\* GET /api/admin/summary: findMany returns the orders of the range; the handler folds them
AdminSummaryQuery(r) ==
    /\ reqs[r].kind = "adminSummary" /\ reqs[r].pc = "query"
    /\ LET l == Get(reqs[r].loc)
           inRange(o) == Gte(o.createdAt, l.from) /\ o.createdAt <= l.to
       IN  reqs' = [reqs EXCEPT ![r] =
              Answer(@, Ok([range |-> l.range, from |-> l.from, to |-> l.to]
                           @@ Summary(SelectSeq(orders, inRange))))]
    /\ UNCHANGED <<now, ticks, rateBuckets, rateLog, users, products, orders, ids, cpn>>

DefaultLimit == 50

\* GET /api/admin/orders?limit= arrives from ip: the route has no middleware,
\* the handler awaits findMany
AdminOrdersArrive(r, ip, limit) ==
    /\ ArriveOpen(r, "adminOrders",
                  [limit |-> IF IsSome(limit) /\ Get(limit) # 0 THEN Get(limit) ELSE DefaultLimit])
    /\ rateLog' = LogReached(RateKey("admin", ip))

\* GET /api/admin/orders: findMany returns the newest orders, at most limit of them
AdminOrdersQuery(r) ==
    /\ reqs[r].kind = "adminOrders" /\ reqs[r].pc = "query"
    /\ LET limit == Get(reqs[r].loc).limit IN
       reqs' = [reqs EXCEPT ![r] =
          Answer(@, Ok([orders |-> SubSeq(Reverse(orders), 1,
                                          IF limit < Len(orders) THEN limit ELSE Len(orders))]))]
    /\ UNCHANGED <<now, ticks, rateBuckets, rateLog, users, products, orders, ids, cpn>>

----------------------------------------------------------------------------
(* A persistence call fails *)

\* the kinds of request whose handler has a try/catch, with the error it answers
CatchError(kind) ==
    CASE kind = "signup" -> "Signup failed"
      [] kind = "login" -> "Login failed"
      [] kind = "addProduct" -> "Failed to create product"
      [] kind = "deleteProduct" -> "Failed to delete product"
      [] kind = "checkout" -> "Checkout failed"
      [] kind = "adminSummary" -> "Failed to load admin summary"
      [] kind = "adminOrders" -> "Failed to load orders"
      [] kind = "products" -> "Failed to load products"
      [] OTHER -> ""

\* the places where a handler awaits a prisma call
AwaitsPrisma(q) ==
    q.pc \in {"auth", "lookup", "create", "find", "delete", "prices", "query", "query2"}

\* what the server does with a promise rejected inside an async handler that has
\* no try/catch: Express 4 drops it and no response is ever sent; Express 5
\* hands it to the default error handler, which answers 500 with an HTML page
UncaughtOutcomes(q) ==
    {[q EXCEPT !.pc = "rejected", !.failed = TRUE, !.loc = None],
     Answer([q EXCEPT !.failed = TRUE],
            [status |-> 500, json |-> FALSE, error |-> "", data |-> None])}

\* the prisma call request r awaits rejects
PersistenceFails(r) ==
    /\ AwaitsPrisma(reqs[r])
    /\ LET q == reqs[r] IN
       \E out \in (IF q.pc = "auth"
                   THEN {Answer([q EXCEPT !.failed = TRUE],
                                Json(401, "Invalid or expired token", None))}
                   ELSE IF CatchError(q.kind) # ""
                   THEN {Answer([q EXCEPT !.failed = TRUE], Json(500, CatchError(q.kind), None))}
                   ELSE UncaughtOutcomes(q)) :
          reqs' = [reqs EXCEPT ![r] = out]
    /\ UNCHANGED <<now, ticks, rateBuckets, rateLog, users, products, orders, ids, cpn>>

----------------------------------------------------------------------------
(* Inputs and initial states *)

Str_s == <<"s","@","x">>
Str_b == <<"b","@","x">>
Phone1 == <<"0","9","1","7">>

\* two users registered through signup: a seller and a buyer
SeedUsers ==
    {[id |-> 1, email |-> Str_s, name |-> <<"S">>, passwordHash |-> bcryptHash("pw1")],
     [id |-> 2, email |-> Str_b, name |-> <<"B">>, passwordHash |-> bcryptHash("pw2")]}

CpnIdle == [total |-> 0, rawCode |-> <<>>, result |-> None]

ObjBody(items, cart, phone, campus, pickup, couponCode) ==
    [isArray |-> FALSE, array |-> <<>>, items |-> items, cart |-> cart, phone |-> phone,
     campus |-> campus, pickup |-> pickup, couponCode |-> couponCode]
ArrBody(array) ==
    [isArray |-> TRUE, array |-> array, items |-> None, cart |-> None, phone |-> <<>>,
     campus |-> <<>>, pickup |-> <<>>, couponCode |-> <<>>]

Item(productId, id, qty, price) ==
    Some([productId |-> productId, id |-> id, name |-> <<>>, qty |-> qty, price |-> price])

InitServer(n) ==
    /\ now = 0
    /\ ticks = 0
    /\ rateBuckets = [k \in Keys |-> None]
    /\ rateLog = [admitted |-> [k \in Keys |-> 0], rejected |-> [k \in Keys |-> FALSE],
                  reached |-> [k \in Keys |-> 0],
                  reopened |-> [k \in Keys |-> FALSE]]
    /\ reqs = [r \in 1..n |-> Idle]

MaxCheckouts == 2

\* fewer than MaxCheckouts checkout requests of the IP have come in so far
MoreCheckouts(ip) ==
    LET b == rateBuckets[RateKey("checkout", ip)] IN
    IsSome(b) => Get(b).count < MaxCheckouts

\* fewer than n admin requests of the IP have come in at the present instant
MoreAdmin(ip, n) == rateLog.reached[RateKey("admin", ip)] < n

----------------------------------------------------------------------------
(* The rate limiter in front of checkout *)

TickSteps == {WindowMs, WindowMs + 1}

RateBodies == {ObjBody(Some(<<>>), None, Phone1, <<>>, <<>>, <<>>)}

RateSlots == 1

InitRate ==
    /\ InitServer(RateSlots)
    /\ cpn = CpnIdle
    /\ users = {u \in SeedUsers : u.id = 2}
    /\ products = {}
    /\ orders = <<>>
    /\ ids = [user |-> 2, product |-> 0, order |-> 0]

NextRate ==
    \/ \E d \in TickSteps : Tick(d)
    \/ \E r \in Slots, ip \in IPs, hdr \in AuthHeaders : CheckoutArrive(r, ip, hdr)
    \/ \E r \in Slots, body \in RateBodies : CheckoutAuth(r, body)
    \/ \E r \in Slots : Forget(r)

SpecRate == InitRate /\ [][NextRate]_vars

----------------------------------------------------------------------------
(* The coupon engine on its own *)

MaxSubtotal == 160
MaxNegSubtotal == 3

Pads == {<<>>, <<" ">>, <<"\t", " ">>}
\* a coupon name as a client may type it
Spellings(name) ==
    {name, ToLowerCase(name), <<ToLowerChar(Head(name))>> \o Tail(name)}
RawCodes ==
    {l \o v \o r : l \in Pads, r \in Pads, v \in Spellings(UNISTUDENT10) \cup Spellings(FREESHIP20)}
    \cup {<<>>, <<" ">>, <<"B","O","G","U","S">>, SubSeq(UNISTUDENT10, 1, 11),
          FREESHIP20 \o <<"0">>, <<"F","R","E","E"," ","S","H","I","P","2","0">>}

InitCoupon ==
    /\ InitServer(0)
    /\ users = {} /\ products = {} /\ orders = <<>>
    /\ ids = [user |-> 0, product |-> 0, order |-> 0]
    /\ \E total \in (0 - MaxNegSubtotal)..MaxSubtotal, rawCode \in RawCodes :
          cpn = [total |-> total, rawCode |-> rawCode, result |-> None]

\* applyCoupon(total, rawCode) is called and returns
ApplyCouponCall ==
    /\ ~IsSome(cpn.result)
    /\ cpn' = [cpn EXCEPT !.result = Some(applyCoupon(cpn.total, cpn.rawCode))]
    /\ UNCHANGED <<now, ticks, rateBuckets, rateLog, users, products, orders, ids, reqs>>

NextCoupon == ApplyCouponCall

SpecCoupon == InitCoupon /\ [][NextCoupon]_vars

----------------------------------------------------------------------------
(* Signup and login under concurrent requests *)

AuthSlots == 2

Str_a == <<"a","@","x">>
Name_N == <<" ","N"," ">>
\* <<email, password, name>> of a signup body
SignupInputs ==
    {<<Str_a, "pw1", Name_N>>, <<(<<" ","A","@","X"," ">>), "pw1", Name_N>>,
     <<Str_b, "pw1", Name_N>>,
     <<(<<" ">>), "pw1", Name_N>>, <<Str_a, "", Name_N>>, <<Str_a, "pw1", (<<>>)>>}
\* <<email, password>> of a login body
LoginInputs ==
    {<<(<<"A","@","x">>), "pw1">>, <<Str_a, "pw2">>, <<Str_b, "pw2">>,
     <<(<<>>), "pw1">>, <<Str_b, "">>}

InitAuth ==
    /\ InitServer(AuthSlots)
    /\ cpn = CpnIdle
    /\ users = {} /\ products = {} /\ orders = <<>>
    /\ ids = [user |-> 0, product |-> 0, order |-> 0]

NextAuth ==
    \/ \E r \in Slots, i \in SignupInputs : SignupArrive(r, i[1], i[2], i[3])
    \/ \E r \in Slots : SignupLookup(r)
    \/ \E r \in Slots : SignupHash(r)
    \/ \E r \in Slots : SignupCreate(r)
    \/ \E r \in Slots, i \in LoginInputs : LoginArrive(r, i[1], i[2])
    \/ \E r \in Slots : LoginLookup(r)
    \/ \E r \in Slots : LoginCompare(r)
    \/ \E r \in Slots : Forget(r)

SpecAuth == InitAuth /\ [][NextAuth]_vars

----------------------------------------------------------------------------
(* Checkout over a fixed catalogue *)

CartSlots == 1

Name_bag == <<"b","a","g">>
Name_pen == <<"p","e","n">>

\* two products the seller has listed
SeedProducts ==
    {[id |-> "p1", name |-> Name_bag, price |-> 100, sellerId |-> 1],
     [id |-> "p2", name |-> Name_pen, price |-> 40, sellerId |-> 1]}

Code_uni == <<" ">> \o ToLowerCase(UNISTUDENT10)
Campus_DLSU == <<"D","L","S","U">>
Pickup_Lib == <<"L","i","b">>

\* carts whose normalized item list is empty
EmptyCarts ==
    {[items |-> Some(<<>>), cart |-> None], [items |-> None, cart |-> Some(<<>>)],
     [items |-> None, cart |-> None], [items |-> Some(<<None, None>>), cart |-> None],
     [items |-> Some(<<>>), cart |-> Some(<<Item("p1", "", Some(1), Some(1))>>)]}

EmptyCartBodies ==
    {ObjBody(c.items, c.cart, ph, o[1], o[2], o[3]) :
        c \in EmptyCarts, ph \in {<<>>, <<" ">>, Phone1},
        o \in {<<(<<>>), (<<>>), (<<>>)>>, <<Campus_DLSU, Pickup_Lib, Code_uni>>,
               <<(<<" ">>), (<<>>), FREESHIP20>>}}
    \cup {ArrBody(<<>>), ArrBody(<<None>>)}

\* carts with items: a known product with a client price that differs, a
\* product named by id only, a quantity of 0, and a falsy entry among the items
CartBodies ==
    {ObjBody(Some(<<Item("p1", "", Some(2), Some(1))>>), None, Phone1, <<>>, <<>>, FREESHIP20),
     ObjBody(None, Some(<<None, Item("", "p2", None, None)>>), Phone1, Campus_DLSU, <<>>, Code_uni),
     ObjBody(Some(<<Item("p1", "", Some(0), None)>>), None, <<>>, <<>>, <<>>, <<>>),
     ArrBody(<<Item("p1", "", Some(1), Some(100))>>)}

InitCart ==
    /\ InitServer(CartSlots)
    /\ cpn = CpnIdle
    /\ users = SeedUsers
    /\ products = SeedProducts
    /\ orders = <<>>
    /\ ids = [user |-> 2, product |-> 2, order |-> 0]

NextCart ==
    \/ \E r \in Slots, hdr \in AuthHeaders : MoreCheckouts("ip1") /\ CheckoutArrive(r, "ip1", hdr)
    \/ \E r \in Slots, body \in EmptyCartBodies \cup CartBodies : CheckoutAuth(r, body)
    \/ \E r \in Slots : CheckoutPrices(r)
    \/ \E r \in Slots : CheckoutCreate(r)
    \/ \E r \in Slots : Forget(r)

SpecCart == InitCart /\ [][NextCart]_vars

----------------------------------------------------------------------------
(* The shop: sellers add and delete products while buyers check out *)

ShopSlots == 2
\* <<name, price>> of a product body
ProductInputs ==
    {<<Name_bag, Some(100)>>, <<Name_pen, Some(40)>>,
     <<(<<" ">>), Some(100)>>, <<Name_bag, Some(0)>>, <<Name_bag, None>>}

\* the headers sellers send: none, or the token of user 1
SellerHeaders == {h \in AuthHeaders : h = None \/ Get(h).id = 1}

\* carts of the shop: known products with client prices that differ, an unknown
\* product, a quantity of 0, and no items
ShopBodies ==
    {ObjBody(Some(<<Item("p1", "", Some(2), Some(1))>>), None, Phone1, <<>>, <<>>, FREESHIP20),
     ObjBody(Some(<<Item("p1", "", Some(1), None), Item("", "p2", None, Some(1))>>), None,
             Phone1, <<>>, <<>>, Code_uni),
     ObjBody(Some(<<Item("zz", "", Some(1), Some(30))>>), None, Phone1, <<>>, <<>>, <<>>),
     ObjBody(Some(<<Item("p1", "", Some(0), Some(100))>>), None, Phone1, <<>>, <<>>, <<>>),
     ObjBody(Some(<<>>), None, Phone1, <<>>, <<>>, <<>>)}

InitShop ==
    /\ InitServer(ShopSlots)
    /\ cpn = CpnIdle
    /\ users = SeedUsers
    /\ products = {}
    /\ orders = <<>>
    /\ ids = [user |-> 2, product |-> 0, order |-> 0]

NextShop ==
    \/ \E r \in Slots, hdr \in SellerHeaders : AddProductArrive(r, hdr)
    \/ \E r \in Slots, i \in ProductInputs : AddProductAuth(r, i[1], i[2])
    \/ \E r \in Slots : AddProductCreate(r)
    \/ \E r \in Slots, hdr \in AuthHeaders : DeleteProductArrive(r, hdr)
    \/ \E r \in Slots, id \in {"p1", "zz"} : DeleteProductAuth(r, id)
    \/ \E r \in Slots : DeleteProductFind(r)
    \/ \E r \in Slots : DeleteProductDelete(r)
    \/ \E r \in Slots, hdr \in AuthHeaders : MoreCheckouts("ip1") /\ CheckoutArrive(r, "ip1", hdr)
    \/ \E r \in Slots, body \in ShopBodies : CheckoutAuth(r, body)
    \/ \E r \in Slots : CheckoutPrices(r)
    \/ \E r \in Slots : CheckoutCreate(r)
    \/ \E r \in Slots : Forget(r)

SpecShop == InitShop /\ [][NextShop]_vars

----------------------------------------------------------------------------
(* Every endpoint, with persistence calls that may fail *)

FaultSlots == 1

FaultSignups == {<<Str_b, "pw2", Name_N>>}
FaultLogins == {<<Str_s, "pw1">>, <<Str_s, "pw2">>}
FaultProducts == {<<Name_pen, Some(40)>>}
FaultBodies ==
    {ObjBody(Some(<<Item("p1", "", Some(2), Some(1))>>), None, Phone1, Campus_DLSU, <<>>, FREESHIP20),
     ObjBody(Some(<<>>), None, Phone1, <<>>, <<>>, <<>>)}
\* the headers of the requests: none, or the token of a registered user
FaultHeaders == AuthHeaders \ {Some(BadToken)}
Ranges == {"", "30d", "all"}
Limits == {None, Some(1)}
\* eight days pass
FaultTick == 8 * DayMs

InitFaults ==
    /\ InitServer(FaultSlots)
    /\ cpn = CpnIdle
    /\ users = {u \in SeedUsers : u.id = 1}
    /\ products = {p \in SeedProducts : p.id = "p1"}
    /\ orders = <<>>
    /\ ids = [user |-> 1, product |-> 1, order |-> 0]

NextFaults ==
    \/ \E r \in Slots, i \in FaultSignups : SignupArrive(r, i[1], i[2], i[3])
    \/ \E r \in Slots : SignupLookup(r)
    \/ \E r \in Slots : SignupHash(r)
    \/ \E r \in Slots : SignupCreate(r)
    \/ \E r \in Slots, i \in FaultLogins : LoginArrive(r, i[1], i[2])
    \/ \E r \in Slots : LoginLookup(r)
    \/ \E r \in Slots : LoginCompare(r)
    \/ \E r \in Slots, hdr \in FaultHeaders : AddProductArrive(r, hdr)
    \/ \E r \in Slots, i \in FaultProducts : AddProductAuth(r, i[1], i[2])
    \/ \E r \in Slots : AddProductCreate(r)
    \/ \E r \in Slots, hdr \in FaultHeaders : DeleteProductArrive(r, hdr)
    \/ \E r \in Slots : DeleteProductAuth(r, "p1")
    \/ \E r \in Slots : DeleteProductFind(r)
    \/ \E r \in Slots : DeleteProductDelete(r)
    \/ \E r \in Slots, hdr \in FaultHeaders : MoreCheckouts("ip1") /\ CheckoutArrive(r, "ip1", hdr)
    \/ \E r \in Slots, body \in FaultBodies : CheckoutAuth(r, body)
    \/ \E r \in Slots : CheckoutPrices(r)
    \/ \E r \in Slots : CheckoutCreate(r)
    \/ \E r \in Slots, hdr \in FaultHeaders, kind \in {"myProducts", "myOrders", "mySales"} :
          MyListArrive(r, kind, hdr)
    \/ \E r \in Slots : MyListAuth(r)
    \/ \E r \in Slots : MyProductsQuery(r)
    \/ \E r \in Slots : MyOrdersQuery(r)
    \/ \E r \in Slots : MySalesProducts(r)
    \/ \E r \in Slots : MySalesOrders(r)
    \/ \E r \in Slots : ProductsArrive(r)
    \/ \E r \in Slots : ProductsQuery(r)
    \/ \E r \in Slots, range \in Ranges :
          MoreAdmin("ip1", MaxCheckouts) /\ AdminSummaryArrive(r, "ip1", range)
    \/ \E r \in Slots : AdminSummaryQuery(r)
    \/ \E r \in Slots, limit \in Limits :
          MoreAdmin("ip1", MaxCheckouts) /\ AdminOrdersArrive(r, "ip1", limit)
    \/ \E r \in Slots : AdminOrdersQuery(r)
    \/ \E r \in Slots : PersistenceFails(r)
    \/ Tick(FaultTick)
    \/ \E r \in Slots : Forget(r)

SpecFaults == InitFaults /\ [][NextFaults]_vars

----------------------------------------------------------------------------
(* The admin endpoints under a burst of requests *)

AdminSlots == 1

\* one request more than the admin limiter would let through in a window
AdminBurst == AdminMaxRequests + 1

InitAdmin ==
    /\ InitServer(AdminSlots)
    /\ cpn = CpnIdle
    /\ users = SeedUsers
    /\ products = {}
    /\ orders = <<>>
    /\ ids = [user |-> 2, product |-> 0, order |-> 0]

NextAdmin ==
    \/ \E r \in Slots, ip \in IPs, range \in Ranges :
          MoreAdmin(ip, AdminBurst) /\ AdminSummaryArrive(r, ip, range)
    \/ \E r \in Slots : AdminSummaryQuery(r)
    \/ \E r \in Slots, ip \in IPs, limit \in Limits :
          MoreAdmin(ip, AdminBurst) /\ AdminOrdersArrive(r, ip, limit)
    \/ \E r \in Slots : AdminOrdersQuery(r)
    \/ \E r \in Slots : Forget(r)

SpecAdmin == InitAdmin /\ [][NextAdmin]_vars

----------------------------------------------------------------------------
(* Analytics over orders placed by checkout *)

SummarySlots == 1

Campus_constructor == <<"c","o","n","s","t","r","u","c","t","o","r">>

\* carts of the analytics runs: campuses given, defaulted, blank and named like
\* a property of Object.prototype; coupons that apply and none
SummaryBodies ==
    {ObjBody(Some(<<Item("p1", "", Some(2), None)>>), None, Phone1, Campus_DLSU, <<>>, FREESHIP20),
     ObjBody(Some(<<Item("p2", "", Some(1), None)>>), None, Phone1, <<>>, <<>>, Code_uni),
     ObjBody(Some(<<Item("p2", "", Some(1), None)>>), None, Phone1, <<" ">>, <<>>, <<>>),
     ObjBody(Some(<<Item("p1", "", Some(1), None)>>), None, Phone1, Campus_constructor, <<>>, <<>>)}

\* the header of the buyer
BuyerHeaders == {h \in AuthHeaders : h # None /\ Get(h).id = 2}

InitSummary ==
    /\ InitServer(SummarySlots)
    /\ cpn = CpnIdle
    /\ users = SeedUsers
    /\ products = SeedProducts
    /\ orders = <<>>
    /\ ids = [user |-> 2, product |-> 2, order |-> 0]

NextSummary ==
    \/ \E r \in Slots, hdr \in BuyerHeaders : MoreCheckouts("ip1") /\ CheckoutArrive(r, "ip1", hdr)
    \/ \E r \in Slots, body \in SummaryBodies : CheckoutAuth(r, body)
    \/ \E r \in Slots : CheckoutPrices(r)
    \/ \E r \in Slots : CheckoutCreate(r)
    \/ Tick(FaultTick)
    \/ \E r \in Slots, range \in Ranges :
          MoreAdmin("ip1", MaxCheckouts) /\ AdminSummaryArrive(r, "ip1", range)
    \/ \E r \in Slots : AdminSummaryQuery(r)
    \/ \E r \in Slots : Forget(r)

SpecSummary == InitSummary /\ [][NextSummary]_vars

----------------------------------------------------------------------------
(* Claims about the rate limiter *)

\* a new request has taken slot r in this step
Arrived(r) == reqs[r].pc = "idle" /\ reqs'[r].pc # "idle"

\* the request in slot r of the next state was answered by the limiter
Rejected429(q) ==
    /\ q.pc = "done" /\ q.stage = "limiter" /\ q.tok = None /\ q.body = None
    /\ Get(q.resp).status = 429 /\ Get(q.resp).error = "Too many requests"

CheckoutKeys == {RateKey("checkout", ip) : ip \in IPs}

\* the step is the checkout limiter handling the request that takes slot r, on key
LimiterStep(r, key) ==
    /\ Arrived(r) /\ reqs'[r].kind = "checkout"
    /\ rateBuckets'[key] # rateBuckets[key]

C4_WindowResets ==
    [][\A r \in Slots, key \in CheckoutKeys :
          LimiterStep(r, key) =>
            /\ ( IsSome(rateBuckets[key]) /\ now - Get(rateBuckets[key]).start > WindowMs )
               => /\ reqs'[r].stage # "limiter"
                  /\ rateBuckets'[key] = Some([count |-> 1, start |-> now])
            /\ ( IsSome(rateBuckets[key]) /\ reqs'[r].stage = "limiter" )
               => Get(rateBuckets'[key]).start = Get(rateBuckets[key]).start]_vars

\* a client that was rejected in one window has been admitted by the reset that
\* opened the window now current
C4_Witness ==
    \E key \in CheckoutKeys :
        /\ rateLog.reopened[key]
        /\ rateBuckets[key] = Some([count |-> 1, start |-> now])
        /\ now > WindowMs

----------------------------------------------------------------------------
(* Claims about the coupon engine *)

\* d is x = n / 100 rounded to the nearest integer, a tie going up
IsHalfUpRounded(d, n) == 200 * d <= 2 * n + 100 /\ 2 * n + 100 < 200 * (d + 1)

\* what the claim says applyCoupon returns, but for the sign of the final total
CouponResultAsClaimed(total, rawCode, res) ==
    LET code == ToUpperCase(Trim(rawCode))
        known == code \in {UNISTUDENT10, FREESHIP20}
        minTotal == IF code = FREESHIP20 THEN 150 ELSE 0
    IN  /\ (~known \/ total <= 0 \/ total < minTotal)
             => res = [finalTotal |-> total, discount |-> 0, code |-> None]
        /\ (known /\ total > 0 /\ total >= minTotal)
             => /\ res.code = Some(code)
                /\ code = UNISTUDENT10 => IsHalfUpRounded(res.discount, total * 10)
                /\ code = FREESHIP20 => res.discount = 20
                /\ res.finalTotal = Max0(total - res.discount)
        /\ res.discount >= 0
        /\ res.code = None => res.discount = 0

\* C8 as stated: the exact result, and discount >= 0, final total >= 0 and a null
\* code only with discount 0, for every integer subtotal and every raw code.
C8_AsStated ==
    IsSome(cpn.result) =>
        /\ CouponResultAsClaimed(cpn.total, cpn.rawCode, Get(cpn.result))
        /\ Get(cpn.result).finalTotal >= 0

\* C8 amended: the exact result, discount >= 0, a null code only with discount
\* 0, and final total >= 0 whenever the subtotal is >= 0 (a negative subtotal
\* comes back unchanged).
C8_ApplyCouponResult ==
    IsSome(cpn.result) =>
        /\ CouponResultAsClaimed(cpn.total, cpn.rawCode, Get(cpn.result))
        /\ cpn.total >= 0 => Get(cpn.result).finalTotal >= 0

\* FREESHIP20, typed in lower case with blanks around it, applied at its minimum
C8_Witness ==
    /\ IsSome(cpn.result)
    /\ cpn.total = FreeShipMinTotal
    /\ cpn.rawCode = <<" ">> \o ToLowerCase(FREESHIP20) \o <<" ">>
    /\ Get(cpn.result) = [finalTotal |-> 130, discount |-> 20, code |-> Some(FREESHIP20)]

----------------------------------------------------------------------------
(* Claims about signup and login *)

\* a signup whose name, email and password were all present and that is answered
SignupAnswered(r) ==
    reqs[r].kind = "signup" /\ reqs[r].pc = "done" /\ IsSome(reqs[r].body)

\* C5: under any interleaving, a signup with all fields present either
\* succeeds or is answered 409 "Email already registered"; per email at most
\* one signup succeeds and every other one gets 409.
C5_DuplicateSignupGets409 ==
    /\ \A r \in Slots : SignupAnswered(r) =>
          \/ Get(reqs[r].resp).status = 200
          \/ /\ Get(reqs[r].resp).status = 409
             /\ Get(reqs[r].resp).error = "Email already registered"
    /\ \A r1, r2 \in Slots :
          ( /\ r1 # r2 /\ SignupAnswered(r1) /\ SignupAnswered(r2)
            /\ Get(reqs[r1].body).email = Get(reqs[r2].body).email )
          => ~(Get(reqs[r1].resp).status = 200 /\ Get(reqs[r2].resp).status = 200)

\* C6: no two User rows hold the same email, and every stored email is
\* trimmed, lower-cased and not empty.
C6_EmailsUnique ==
    /\ \A u1, u2 \in users : u1.email = u2.email => u1 = u2
    /\ \A u \in users : u.email = ToLowerCase(Trim(u.email)) /\ u.email # <<>>

\* two signups for one email both passed the lookup; one created the user and
\* the unique index rejected the other
C6_Witness ==
    \E r1, r2 \in Slots :
        /\ r1 # r2 /\ SignupAnswered(r1) /\ SignupAnswered(r2)
        /\ Get(reqs[r1].body).email = Get(reqs[r2].body).email
        /\ Get(reqs[r1].resp).status = 200
        /\ reqs[r2].failed /\ Get(reqs[r2].resp).status = 500
        /\ Cardinality(UserByEmail(Get(reqs[r1].body).email)) = 1

\* a login with email and password present that is answered without a token
LoginRefused(r) ==
    /\ reqs[r].kind = "login" /\ reqs[r].pc = "done" /\ IsSome(reqs[r].body)
    /\ Get(reqs[r].resp).status # 200

----------------------------------------------------------------------------
(* Claims about checkout *)

\* a checkout that passed the limiter, requireAuth, the phone check and the
\* non-empty-cart check, and has been answered
CheckoutAccepted(r) ==
    /\ reqs[r].kind = "checkout" /\ reqs[r].pc = "done" /\ reqs[r].stage = "handler"
    /\ IsSome(reqs[r].body)
    /\ sanitizeString(BodyField(Get(reqs[r].body), "phone"), 32) # <<>>
    /\ Norm(BodyItems(Get(reqs[r].body))) # <<>>

\* the price the claim gives an item: the stored price of its product when the
\* product exists, else the price the client sent
ClaimedPrice(i) ==
    IF ProductById(i.productId) # {}
    THEN (CHOOSE p \in ProductById(i.productId) : TRUE).price
    ELSE i.priceSnap

RECURSIVE ClaimedSubtotal(_)
ClaimedSubtotal(norm) ==
    IF norm = <<>> THEN 0
    ELSE ClaimedPrice(Head(norm)) * ChargedQty(Head(norm)) + ClaimedSubtotal(Tail(norm))

\* C1: an accepted checkout persists its Order and returns its id and total;
\* each item is priced at the stored price of its product, or at the client's
\* price when no product has its productId, in the OrderItem and in the subtotal.
C1_CheckoutPricing ==
    \A r \in Slots : CheckoutAccepted(r) =>
        LET body == Get(reqs[r].body)
            norm == Norm(BodyItems(body))
            resp == Get(reqs[r].resp)
        IN  /\ resp.status = 200
            /\ \E n \in 1..Len(orders) :
                  /\ orders[n].id = Get(resp.data).orderId
                  /\ orders[n].total = Get(resp.data).total
                  /\ Len(orders[n].items) = Len(norm)
                  /\ \A k \in 1..Len(norm) :
                        /\ orders[n].items[k].productId = norm[k].productId
                        /\ orders[n].items[k].price = ClaimedPrice(norm[k])
                  /\ orders[n].total =
                        applyCoupon(ClaimedSubtotal(norm),
                                    sanitizeString(BodyField(body, "couponCode"), 32)).finalTotal

\* the sum over OrderItem rows of price * qty
RECURSIVE ItemsSum(_)
ItemsSum(items) ==
    IF items = <<>> THEN 0
    ELSE Head(items).price * Head(items).qty + ItemsSum(Tail(items))

\* C2: every persisted Order has total = the coupon engine's final total on the
\* sum of its own OrderItems' price * qty, and discount = its discount on that sum.
C2_OrderTotalMatchesItems ==
    \A n \in 1..Len(orders) :
        LET c == applyCoupon(ItemsSum(orders[n].items), orders[n].couponCodeRaw) IN
        /\ orders[n].total = c.finalTotal
        /\ orders[n].discount = c.discount

\* the handler has just read, in this step, a body whose normalized cart is empty
ReadsEmptyCart(r) ==
    /\ reqs[r].kind = "checkout" /\ reqs[r].pc = "auth"
    /\ reqs'[r].stage = "handler"
    /\ Norm(BodyItems(Get(reqs'[r].body))) = <<>>

\* C7 as stated: an authenticated checkout with an empty normalized cart is
\* answered 422 whatever phone, campus, pickup and couponCode are, and persists
\* no Order.
C7_AsStated ==
    [][\A r \in Slots : ReadsEmptyCart(r) =>
          /\ reqs'[r].pc = "done" /\ orders' = orders
          /\ Get(reqs'[r].resp).status = 422]_vars

\* C7 amended: an authenticated checkout with an empty normalized cart
\* persists no Order and is answered 422 "No items received" whatever campus,
\* pickup and couponCode are, when its phone is not empty after trimming; when
\* the phone is missing or blank it is answered 400 "Phone number is required".
C7_EmptyCartRejected ==
    [][\A r \in Slots : ReadsEmptyCart(r) =>
          /\ reqs'[r].pc = "done" /\ orders' = orders
          /\ Get(reqs'[r].resp) =
                IF sanitizeString(BodyField(Get(reqs'[r].body), "phone"), 32) = <<>>
                THEN Json(400, "Phone number is required", None)
                ELSE Json(422, "No items received", None)]_vars

\* a cart of falsy entries only, sent with a phone, a campus and a coupon code,
\* has been answered 422
C7_Witness ==
    \E r \in Slots :
        /\ reqs[r].kind = "checkout" /\ reqs[r].pc = "done" /\ IsSome(reqs[r].body)
        /\ Get(reqs[r].body).items = Some(<<None, None>>)
        /\ Get(reqs[r].body).phone = Phone1
        /\ Get(reqs[r].body).campus = Campus_DLSU
        /\ Get(reqs[r].body).couponCode = Code_uni
        /\ Get(reqs[r].resp).status = 422
        /\ orders = <<>>

----------------------------------------------------------------------------
(* Claims about persistence failures *)

\* C10: a request whose persistence call has failed is answered, and its
\* answer is a JSON body with an error message under an error status; no
\* such request is left without a response or with a response of another kind
C10_PersistenceFailureAnswered ==
    \A r \in Slots :
        reqs[r].failed =>
            /\ reqs[r].pc = "done"
            /\ Get(reqs[r].resp).json
            /\ Get(reqs[r].resp).status >= 400
            /\ Get(reqs[r].resp).error # ""

----------------------------------------------------------------------------
(* Claims about the admin endpoints *)

AdminKeys == {RateKey("admin", ip) : ip \in IPs}

\* C11: the admin limiter gates GET /api/admin/summary and GET /api/admin/orders:
\* of the admin requests of one IP within one window (here: at one instant) at
\* most 60 come to a handler, the 61st being answered 429 before the handler.
C11_AdminRateLimited ==
    \A key \in AdminKeys : rateLog.reached[key] <= AdminMaxRequests

----------------------------------------------------------------------------
(* Claims about analytics *)

\* the sum of field f over a set of records
RECURSIVE SumField(_, _)
SumField(S, f) ==
    IF S = {} THEN 0
    ELSE LET x == CHOOSE y \in S : TRUE IN x[f] + SumField(S \ {x}, f)

Range(q) == {q[i] : i \in 1..Len(q)}

\* the summary sm reconciles with the stored orders
Reconciles(sm, stored) ==
    LET carrying(o) == IsSome(o.couponCode) /\ Get(o.couponCode) # <<>> IN
    /\ sm.totals.sales = SumSeq(Totals(stored))
    /\ sm.totals.orders = Len(stored)
    /\ sm.totals.discount = SumSeq(Discounts(stored))
    /\ SumField(sm.byCampus, "sales") = sm.totals.sales
    /\ SumField(sm.byCampus, "orders") = sm.totals.orders
    /\ SumField(Range(sm.daily), "sales") = sm.totals.sales
    /\ SumField(Range(sm.daily), "orders") = sm.totals.orders
    /\ \A i \in 1..Len(sm.daily) - 1 : sm.daily[i].date < sm.daily[i + 1].date
    /\ {d.date : d \in Range(sm.daily)} = {DateKey(o.createdAt) : o \in Range(stored)}
    /\ SumField(sm.byCoupon, "uses") = Len(SelectSeq(stored, carrying))
    /\ SumField(sm.byCoupon, "totalDiscount") = sm.totals.discount

\* C12: when GET /api/admin/summary with range=all is answered, the totals of
\* the answer are the sums over the stored orders created at or before the
\* request time, and its byCampus, daily and byCoupon breakdowns sum to those
\* totals, with one daily entry per day in strictly ascending order.
C12_SummaryReconciles ==
    [][\A r \in Slots :
          ( /\ reqs[r].kind = "adminSummary" /\ reqs[r].pc = "query"
            /\ reqs'[r].pc = "done" /\ ~reqs'[r].failed
            /\ Get(reqs[r].loc).range = "all" )
          => LET atOrBefore(o) == o.createdAt <= Get(reqs[r].loc).to IN
             /\ Get(reqs'[r].resp).status = 200
             /\ Reconciles(Get(Get(reqs'[r].resp).data), SelectSeq(orders, atOrBefore))]_vars

====
